---- MODULE Spec2Model ----
(***************************************************************************)
(* The FD calculator component of src/src/App.jsx as a state machine.      *)
(*                                                                         *)
(* Numbers.  Every JavaScript number the component stores (investment,     *)
(* rate, years, months, totalInterest, maturityAmount, the chart's data)   *)
(* is held as an integer count of tenths (1/DEC), the finest step of the   *)
(* form (step="0.1"): 2 years is 20, 7.5 % is 75, half a month is 5.       *)
(* compound holds one of the whole option values of the select.  The       *)
(* intermediate values of the formula (r, t, the base and the exponent of  *)
(* Math.pow) are fixed-point numbers with six decimals (1/FX); IEEE        *)
(* rounding becomes truncation at that precision.                          *)
(*                                                                         *)
(* Scheduling.  React commits a render, then flushes the passive effects   *)
(* of that commit before it handles the next event; effectsPending is      *)
(* TRUE from a commit whose dependencies changed until that flush.         *)
(***************************************************************************)
EXTENDS Integers, Sequences, FiniteSets, TLC

VARIABLES investment, rate, years, months, compound,
          totalInterest, maturityAmount,
          chartInstanceRef, chartData, liveCharts, created,
          phase, effectsPending, lastEvent

vars == <<investment, rate, years, months, compound,
          totalInterest, maturityAmount,
          chartInstanceRef, chartData, liveCharts, created,
          phase, effectsPending, lastEvent>>

(***************************************************************************)
(* Bounds of the model.                                                    *)
(***************************************************************************)
\* chart instances ever constructed (mounts and effect re-runs together)
MaxCharts == 3
\* the largest whole number of years typed into the years field
MaxTypedYears == 11

(***************************************************************************)
(* Program constants.                                                      *)
(***************************************************************************)
DEC == 10
FXH == DEC * DEC * DEC
FX == FXH * FXH
InvestmentInit == 673340
RateInit == 1
YearsInit == 2
MonthsInit == 1
CompoundInit == 12
MonthsMax == 11
TimeRangeMin == 1
TimeRangeMax == 120
InvestmentRangeMin == 1000
InvestmentRangeMax == 1000000
RateRangeMin == 1
RateRangeMax == 15
CompoundOptions == {1, 2, 4, 12}

Whole(k) == k * DEC

(***************************************************************************)
(* Fixed-point arithmetic standing for the double arithmetic of the        *)
(* formula.  MulFx(a, b) is floor(a * b / FX) computed in parts that stay  *)
(* within 32 bits; a and b are non-negative.                               *)
(***************************************************************************)
MulFx(a, b) ==
    LET ah == a \div FXH
        al == a % FXH
        bh == b \div FXH
        bl == b % FXH
        mid == ah * bl + al * bh
    IN  ah * bh + mid \div FXH + ((mid % FXH) * FXH + al * bl) \div FX

\* ln(1 + x) = x - x^2/2 + x^3/3 - ..., for 0 <= x < 1, summed in pairs
RECURSIVE LnTerms(_, _, _)
LnTerms(x, p, k) ==
    IF p = 0 THEN 0
    ELSE LET q == MulFx(p, x)
         IN  p \div k - q \div (k + 1) + LnTerms(x, MulFx(q, x), k + 2)

Log1p(x) == LnTerms(x, x, 1)

\* e^y = 1 + y + y^2/2! + ..., for y >= 0
RECURSIVE ExpTerms(_, _, _)
ExpTerms(y, term, k) ==
    IF term = 0 THEN 0 ELSE term + ExpTerms(y, MulFx(term, y) \div k, k + 1)

Exp(y) == ExpTerms(y, FX, 1)

\* Math.pow(b, e) for a base b >= 1 and a real exponent e >= 0
Pow(b, e) == Exp(MulFx(e, Log1p(b - FX)))

(***************************************************************************)
(* e.target.value and its conversions.  A field's value is a string: empty,*)
(* not a number, or a decimal numeral (val in tenths).                     *)
(***************************************************************************)
EmptyEntry == [kind |-> "empty", val |-> 0]
TextEntry == [kind |-> "text", val |-> 0]
Num(v) == [kind |-> "num", val |-> v]

NaN == [nan |-> TRUE, v |-> 0]
Finite(v) == [nan |-> FALSE, v |-> v]

\* Number(s): "" is 0, a numeral is its value, anything else is NaN
Number(s) ==
    CASE s.kind = "empty" -> Finite(0)
      [] s.kind = "num" -> Finite(s.val)
      [] OTHER -> NaN

\* x || 0: NaN and 0 are falsy
OrZero(x) == IF x.nan \/ x.v = 0 THEN 0 ELSE x.v

\* Math.max(0, x) and Math.min(11, x) on numbers
MathMax(a, b) == IF a >= b THEN a ELSE b
MathMin(a, b) == IF a <= b THEN a ELSE b

\* parseInt(s, 10) of a range input's value, a whole numeral
ParseInt(s) == s.val \div DEC

NoEvent == [target |-> "none", value |-> EmptyEntry]
Event(t, s) == [target |-> t, value |-> s]

(***************************************************************************)
(* Derived values of a render.                                             *)
(***************************************************************************)
totalMonths == years * 12 + months

\* mutant: the slider's value without the clamp
currentTimeRangeValueUnclamped == totalMonths

currentTimeRangeValue ==
    MathMin(MathMax(totalMonths, Whole(TimeRangeMin)), Whole(TimeRangeMax))

(***************************************************************************)
(* The recalculation effect.                                               *)
(***************************************************************************)
\* mutant: strict comparisons, so a zero principal or rate is computed
DegenerateStrict(inv, rt, y, m) == inv < 0 \/ rt < 0 \/ (y = 0 /\ m = 0)

Degenerate(inv, rt, y, m) == inv <= 0 \/ rt <= 0 \/ (y = 0 /\ m = 0)

\* r = rate / 100
RateFraction(rt) == (rt * (FX \div DEC)) \div 100

\* mutant: months added without the division by 12
TenureYearsUndivided(y, m) == y * (FX \div DEC) + m * (FX \div DEC)

\* t = years + months / 12
TenureYears(y, m) == y * (FX \div DEC) + (m * (FX \div DEC)) \div 12

\* A = investment * Math.pow(1 + r / n, n * t)
Maturity(inv, rt, y, m, c) ==
    LET r == RateFraction(rt)
        t == TenureYears(y, m)
        n == c
    IN  MulFx(inv, Pow(FX + r \div n, n * t))

\* what the effect stores and what it hands to updateChart(principal, interest)
Recalc(inv, rt, y, m, c) ==
    IF Degenerate(inv, rt, y, m)
    THEN [interest |-> 0, amount |-> 0, principal |-> 0]
    ELSE LET A == Maturity(inv, rt, y, m, c)
         IN  [interest |-> A - inv, amount |-> A, principal |-> inv]

\* updateChart: nothing without a chart, else data = [interest, principal]
UpdateChart(ref, data, principal, interest) ==
    IF ref = 0 THEN data ELSE <<interest, principal>>

(***************************************************************************)
(* The chart instance.  liveCharts is the set of constructed instances not *)
(* yet destroyed; chartInstanceRef is 0 for null.                          *)
(***************************************************************************)
\* mutant: the instance is dropped without destroy()
DestroyChartLeak(live, ref) == live

DestroyChart(live, ref) == live \ {ref}

\* the cleanup returned by the chart effect
ChartCleanup(live, ref) ==
    IF ref # 0 THEN [live |-> DestroyChart(live, ref), ref |-> 0]
    ELSE [live |-> live, ref |-> ref]

\* the chart effect: destroy what the ref holds, then construct
ChartInit(live, ref, id) ==
    LET kept == IF ref # 0 THEN DestroyChart(live, ref) ELSE live
    IN  [live |-> kept \cup {id}, ref |-> id]

(***************************************************************************)
(* Initial state: the first render, before its effects run.                *)
(***************************************************************************)
FreshState ==
    /\ investment = Whole(InvestmentInit)
    /\ rate = Whole(RateInit)
    /\ years = Whole(YearsInit)
    /\ months = Whole(MonthsInit)
    /\ compound = CompoundInit
    /\ totalInterest = 0
    /\ maturityAmount = 0
    /\ chartInstanceRef = 0
    /\ chartData = <<0, 0>>
    /\ phase = "rendered"
    /\ effectsPending = TRUE
    /\ lastEvent = NoEvent

Init == FreshState /\ liveCharts = {} /\ created = 0

(***************************************************************************)
(* Values the events carry.                                                *)
(***************************************************************************)
InvestmentEntries == {EmptyEntry, TextEntry, Num(-50), Num(Whole(1000))}
InvestmentRangeValues == {Num(Whole(InvestmentRangeMin)), Num(Whole(InvestmentRangeMax))}
RateEntries == {EmptyEntry, TextEntry, Num(-10), Num(75)}
RateRangeValues == {Num(Whole(RateRangeMin)), Num(Whole(RateRangeMax))}
YearsEntries ==
    {EmptyEntry, TextEntry, Num(-10), Num(5), Num(Whole(1)), Num(Whole(MaxTypedYears))}
MonthsEntries ==
    {EmptyEntry, TextEntry, Num(-30), Num(5), Num(Whole(6)), Num(Whole(12))}
TimeRangeSample == {TimeRangeMin, 12, 25, TimeRangeMax}
TimeRangeAll == TimeRangeMin .. TimeRangeMax

(***************************************************************************)
(* Event handlers.  Each runs on a mounted component whose effects have    *)
(* been flushed, stores its field and commits the render; the recalculation*)
(* effect is pending when a dependency changed.                            *)
(***************************************************************************)
Idle == phase = "mounted" /\ ~effectsPending

\* investmentInput onChange: setInvestment(Number(e.target.value) || 0)
SetInvestment(s) ==
    /\ Idle
    /\ investment' = OrZero(Number(s))
    /\ lastEvent' = Event("investmentInput", s)
    /\ effectsPending' = (investment' # investment)
    /\ UNCHANGED <<rate, years, months, compound, totalInterest, maturityAmount,
                   chartInstanceRef, chartData, liveCharts, created, phase>>

\* investment range onChange: setInvestment(Number(e.target.value))
SetInvestmentRange(s) ==
    /\ Idle
    /\ investment' = Number(s).v
    /\ lastEvent' = Event("investmentRange", s)
    /\ effectsPending' = (investment' # investment)
    /\ UNCHANGED <<rate, years, months, compound, totalInterest, maturityAmount,
                   chartInstanceRef, chartData, liveCharts, created, phase>>

\* rateInput onChange: setRate(Number(e.target.value) || 0)
SetRate(s) ==
    /\ Idle
    /\ rate' = OrZero(Number(s))
    /\ lastEvent' = Event("rateInput", s)
    /\ effectsPending' = (rate' # rate)
    /\ UNCHANGED <<investment, years, months, compound, totalInterest,
                   maturityAmount, chartInstanceRef, chartData, liveCharts,
                   created, phase>>

\* rate range onChange: setRate(Number(e.target.value))
SetRateRange(s) ==
    /\ Idle
    /\ rate' = Number(s).v
    /\ lastEvent' = Event("rateRange", s)
    /\ effectsPending' = (rate' # rate)
    /\ UNCHANGED <<investment, years, months, compound, totalInterest,
                   maturityAmount, chartInstanceRef, chartData, liveCharts,
                   created, phase>>

\* years onChange: setYears(Math.max(0, Number(e.target.value) || 0))
SetYears(s) ==
    /\ Idle
    /\ years' = MathMax(0, OrZero(Number(s)))
    /\ lastEvent' = Event("yearsInput", s)
    /\ effectsPending' = (years' # years)
    /\ UNCHANGED <<investment, rate, months, compound, totalInterest,
                   maturityAmount, chartInstanceRef, chartData, liveCharts,
                   created, phase>>

\* months onChange: setMonths(Math.min(11, Math.max(0, Number(e.target.value) || 0)))
SetMonths(s) ==
    /\ Idle
    /\ months' = MathMin(Whole(MonthsMax), MathMax(0, OrZero(Number(s))))
    /\ lastEvent' = Event("monthsInput", s)
    /\ effectsPending' = (months' # months)
    /\ UNCHANGED <<investment, rate, years, compound, totalInterest,
                   maturityAmount, chartInstanceRef, chartData, liveCharts,
                   created, phase>>

\* Math.floor(total / 12) and total % 12 of the slider's whole total
SliderYears(total) == total \div 12
\* mutant: remainder by the largest month instead of by 12
SliderMonthsOff(total) == total % MonthsMax
SliderMonths(total) == total % 12

\* handleTimeRangeChange: the tenure slider at position pos
HandleTimeRangeChange(pos) ==
    LET s == Num(Whole(pos))
        total == ParseInt(s)
    IN  /\ Idle
        /\ years' = Whole(SliderYears(total))
        /\ months' = Whole(SliderMonths(total))
        /\ lastEvent' = Event("timeRange", s)
        /\ effectsPending' = (<<years', months'>> # <<years, months>>)
        /\ UNCHANGED <<investment, rate, compound, totalInterest,
                       maturityAmount, chartInstanceRef, chartData, liveCharts,
                       created, phase>>

\* compoundSelect onChange: setCompound(Number(e.target.value))
SetCompound(c) ==
    /\ Idle
    /\ compound' = Number(Num(Whole(c))).v \div DEC
    /\ lastEvent' = Event("compoundSelect", Num(Whole(c)))
    /\ effectsPending' = (compound' # compound)
    /\ UNCHANGED <<investment, rate, years, months, totalInterest,
                   maturityAmount, chartInstanceRef, chartData, liveCharts,
                   created, phase>>

(***************************************************************************)
(* Effects.                                                                *)
(***************************************************************************)
\* the recalculation effect of a commit whose inputs changed
RecalcEffect ==
    LET res == Recalc(investment, rate, years, months, compound)
    IN  /\ phase = "mounted"
        /\ effectsPending
        /\ totalInterest' = res.interest
        /\ maturityAmount' = res.amount
        /\ chartData' = UpdateChart(chartInstanceRef, chartData,
                                    res.principal, res.interest)
        /\ effectsPending' = FALSE
        /\ lastEvent' = NoEvent
        /\ UNCHANGED <<investment, rate, years, months, compound,
                       chartInstanceRef, liveCharts, created, phase>>

\* the effects of a mount, or of a re-run after cleanup, in declaration
\* order: the chart effect, then the recalculation effect
RunEffects ==
    LET ch == ChartInit(liveCharts, chartInstanceRef, created + 1)
        res == Recalc(investment, rate, years, months, compound)
    IN  /\ phase \in {"rendered", "cleaned"}
        /\ chartInstanceRef' = ch.ref
        /\ liveCharts' = ch.live
        /\ created' = created + 1
        /\ totalInterest' = res.interest
        /\ maturityAmount' = res.amount
        /\ chartData' = UpdateChart(ch.ref, <<0, 0>>, res.principal, res.interest)
        /\ phase' = "mounted"
        /\ effectsPending' = FALSE
        /\ lastEvent' = NoEvent
        /\ UNCHANGED <<investment, rate, years, months, compound>>

\* an effect re-run (development double invocation, hot reload) starts by
\* running the cleanup of the chart effect
RerunCleanup ==
    LET c == ChartCleanup(liveCharts, chartInstanceRef)
    IN  /\ Idle
        /\ created < MaxCharts
        /\ chartInstanceRef' = c.ref
        /\ liveCharts' = c.live
        /\ phase' = "cleaned"
        /\ effectsPending' = TRUE
        /\ lastEvent' = NoEvent
        /\ UNCHANGED <<investment, rate, years, months, compound, totalInterest,
                       maturityAmount, chartData, created>>

\* unmount runs the cleanup of the chart effect
Unmount ==
    LET c == ChartCleanup(liveCharts, chartInstanceRef)
    IN  /\ Idle
        /\ chartInstanceRef' = c.ref
        /\ liveCharts' = c.live
        /\ phase' = "unmounted"
        /\ lastEvent' = NoEvent
        /\ UNCHANGED <<investment, rate, years, months, compound, totalInterest,
                       maturityAmount, chartData, created, effectsPending>>

\* a later mount is a new component instance: fresh state and refs
Remount ==
    /\ phase = "unmounted"
    /\ created < MaxCharts
    /\ investment' = Whole(InvestmentInit)
    /\ rate' = Whole(RateInit)
    /\ years' = Whole(YearsInit)
    /\ months' = Whole(MonthsInit)
    /\ compound' = CompoundInit
    /\ totalInterest' = 0
    /\ maturityAmount' = 0
    /\ chartInstanceRef' = 0
    /\ chartData' = <<0, 0>>
    /\ phase' = "rendered"
    /\ effectsPending' = TRUE
    /\ lastEvent' = NoEvent
    /\ UNCHANGED <<liveCharts, created>>

Next ==
    \/ \E s \in RateEntries : SetRate(s)
    \/ \E s \in RateRangeValues : SetRateRange(s)
    \/ \E s \in InvestmentEntries : SetInvestment(s)
    \/ \E s \in InvestmentRangeValues : SetInvestmentRange(s)
    \/ \E s \in YearsEntries : SetYears(s)
    \/ \E s \in MonthsEntries : SetMonths(s)
    \/ \E pos \in TimeRangeSample : HandleTimeRangeChange(pos)
    \/ \E c \in CompoundOptions : SetCompound(c)
    \/ RecalcEffect
    \/ RunEffects
    \/ RerunCleanup
    \/ Unmount
    \/ Remount

Spec == Init /\ [][Next]_vars

\* the tenure controls alone, with the slider at every position
TenureNext ==
    \/ \E s \in YearsEntries : SetYears(s)
    \/ \E s \in MonthsEntries : SetMonths(s)
    \/ \E pos \in TimeRangeAll : HandleTimeRangeChange(pos)
    \/ RecalcEffect
    \/ RunEffects

TenureSpec == Init /\ [][TenureNext]_vars

(***************************************************************************)
(* Claims.                                                                 *)
(***************************************************************************)
\* the formula of the specification, written from its text:
\* P * (1 + R/100/n)^(n * (Y + M/12))
FormulaAmount(P, R, Y, M, n) ==
    MulFx(P, Pow(FX + ((R * (FX \div DEC)) \div 100) \div n,
                 n * (Y * (FX \div DEC) + (M * (FX \div DEC)) \div 12)))

\* b^k by repeated multiplication, k a whole number
RECURSIVE RepeatedProduct(_, _)
RepeatedProduct(b, k) == IF k = 0 THEN FX ELSE MulFx(RepeatedProduct(b, k - 1), b)

\* a and b agree to one part in ten thousand
Close(a, b) ==
    LET d == IF a >= b THEN a - b ELSE b - a
    IN  d <= MathMax(a, b) \div (DEC * DEC * DEC * DEC)

\* C1: once the recalculation has run on degenerate inputs (principal <= 0,
\* or rate <= 0, or years and months both 0), the stored pair
\* (totalInterest, maturityAmount) is (0, 0) and the component is still
\* mounted, whatever the compounding frequency.
C1_DegenerateYieldsZero ==
    (/\ Idle
     /\ investment <= 0 \/ rate <= 0 \/ (years = 0 /\ months = 0))
        => /\ totalInterest = 0
           /\ maturityAmount = 0
           /\ compound \in CompoundOptions

\* C1 witness: a recalculated state with a positive principal and tenure and
\* a zero rate, at quarterly compounding
C1_Witness ==
    /\ Idle
    /\ investment > 0
    /\ rate = 0
    /\ years > 0
    /\ compound = 4
    /\ totalInterest = 0
    /\ maturityAmount = 0

\* C2: once the recalculation has run on non-degenerate inputs, the stored
\* maturityAmount is P * (1 + R/100/n)^(n * (Y + M/12)), totalInterest is
\* maturityAmount - P, and both are non-negative; for a whole number of
\* years compounded yearly the amount agrees with multiplying P by
\* (1 + R/100) once per year.
C2_FormulaBranch ==
    (/\ Idle
     /\ investment > 0
     /\ rate > 0
     /\ ~(years = 0 /\ months = 0)
     /\ compound \in {1, 2, 4, 12})
        => /\ maturityAmount = FormulaAmount(investment, rate, years, months, compound)
           /\ totalInterest = maturityAmount - investment
           /\ totalInterest >= 0
           /\ maturityAmount >= 0
           /\ (compound = 1 /\ months = 0 /\ years % DEC = 0)
                => Close(maturityAmount,
                         MulFx(investment,
                               RepeatedProduct(FX + rate * (FX \div (DEC * 100)),
                                               years \div DEC)))

\* C2 witness: a recalculated state with a fractional exponent (one month
\* beyond whole years, compounded yearly) and a positive interest
C2_Witness ==
    /\ Idle
    /\ investment > 0
    /\ rate > 0
    /\ years > 0
    /\ months = Whole(1)
    /\ compound = 1
    /\ totalInterest > 0
    /\ maturityAmount = investment + totalInterest

\* C3 (as claimed): in every state of the mounted component, the render
\* between an input update and the recalculation effect included, the stored
\* totalInterest and maturityAmount are the calculator's output for the
\* current five inputs.
C3_NoStaleness ==
    phase = "mounted" =>
        LET res == Recalc(investment, rate, years, months, compound)
        IN  /\ totalInterest = res.interest
            /\ maturityAmount = res.amount

\* C4 (as claimed): in every state of the mounted component
\* totalInterest = maturityAmount - principal and maturityAmount >= principal.
C4_DerivedConstraints ==
    phase = "mounted" =>
        /\ totalInterest = maturityAmount - investment
        /\ maturityAmount >= investment

\* C5 (as claimed): an edit of the principal, rate, years or months field
\* whose value is non-numeric, empty or negative stores 0 in that field, and
\* no stored input is ever negative.
C5_InvalidEntryStoresZero ==
    LET bad == lastEvent.value.kind # "num" \/ lastEvent.value.val < 0
    IN  /\ (lastEvent.target = "investmentInput" /\ bad) => investment = 0
        /\ (lastEvent.target = "rateInput" /\ bad) => rate = 0
        /\ (lastEvent.target = "yearsInput" /\ bad) => years = 0
        /\ (lastEvent.target = "monthsInput" /\ bad) => months = 0
        /\ investment >= 0
        /\ rate >= 0
        /\ years >= 0
        /\ months >= 0

\* C6 (as claimed): in every state of the mounted component the slider's
\* value is years * 12 + months.
C6_SliderEqualsTotalMonths ==
    phase = "mounted" => currentTimeRangeValue = years * 12 + months

\* C6 (amended): moving the slider to M in 1..120 sets years = floor(M / 12)
\* and months = M mod 12 and leaves the slider at M; in every state the
\* slider's value is years * 12 + months clamped to 1..120: that total
\* itself when it lies in 1..120, 1 below and 120 above.
C6_SliderSync ==
    LET total == years * 12 + months
        M == lastEvent.value.val \div DEC
    IN  /\ lastEvent.target = "timeRange"
            => /\ M \in TimeRangeMin .. TimeRangeMax
               /\ years = Whole(M \div 12)
               /\ months = Whole(M % 12)
               /\ currentTimeRangeValue = Whole(M)
        /\ total < Whole(TimeRangeMin) => currentTimeRangeValue = Whole(TimeRangeMin)
        /\ total > Whole(TimeRangeMax) => currentTimeRangeValue = Whole(TimeRangeMax)
        /\ (total >= Whole(TimeRangeMin) /\ total <= Whole(TimeRangeMax))
            => currentTimeRangeValue = total

\* C6 witness: the slider was moved to its last position after the fields
\* held another tenure
C6_Witness ==
    /\ lastEvent.target = "timeRange"
    /\ lastEvent.value.val = Whole(TimeRangeMax)
    /\ effectsPending
    /\ years = Whole(10)
    /\ months = 0
    /\ currentTimeRangeValue = Whole(TimeRangeMax)

\* C7: for every slider position M in 1..120, the years and months the
\* slider handler stores recompose to M (years * 12 + months = M), years is
\* the whole number floor(M / 12) and months is a whole number in 0..11.
C7_TenureRoundTrip ==
    lastEvent.target = "timeRange" =>
        LET M == lastEvent.value.val
        IN  /\ years * 12 + months = M
            /\ years % DEC = 0
            /\ months % DEC = 0
            /\ months >= 0
            /\ months <= Whole(11)
            /\ years >= 0

\* C7 witness: the slider moved to 119 months, 9 years 11 months
C7_Witness ==
    /\ lastEvent.target = "timeRange"
    /\ lastEvent.value.val = Whole(119)
    /\ years = Whole(9)
    /\ months = Whole(11)

\* C8 (as claimed): after every recomputation, degenerate or not, the
\* chart's series is [totalInterest, principal] for the current inputs.
C8_ChartShowsInterestAndPrincipal ==
    (Idle /\ chartInstanceRef # 0) => chartData = <<totalInterest, investment>>

\* C9: at most one chart instance is live at a time and it is the one the
\* ref holds; the instance is destroyed before a re-run constructs the next
\* (none is live between cleanup and re-run), and after unmount none is live
\* and the ref is null.
C9_ChartLifecycle ==
    /\ Cardinality(liveCharts) <= 1
    /\ chartInstanceRef = 0 => liveCharts = {}
    /\ chartInstanceRef # 0 => liveCharts = {chartInstanceRef}
    /\ phase = "mounted" => chartInstanceRef = created
    /\ phase \in {"cleaned", "unmounted"} => (chartInstanceRef = 0 /\ liveCharts = {})

\* C9 witness: unmounted after at least one effect re-run or remount
C9_Witness ==
    /\ phase = "unmounted"
    /\ created >= 2
    /\ chartInstanceRef = 0
    /\ liveCharts = {}

\* C10 (as claimed): the stored years is a non-negative whole number, the
\* stored months a whole number in 0..11, and compound one of 1, 2, 4, 12.
C10_InputConstraints ==
    /\ years >= 0
    /\ years % DEC = 0
    /\ months % DEC = 0
    /\ months >= 0
    /\ months <= Whole(11)
    /\ compound \in {1, 2, 4, 12}

====
